---- MODULE Spec2Model ----
(***************************************************************************)
(* Model of the Mastermind assembly animation scripts:                     *)
(*   run_animation.py  - command-line dispatcher around the manim CLI      *)
(*   animations.py     - scene classes, create_animation factory, main     *)
(* A behaviour is one run of one program: one of the two command-line      *)
(* entry points, or the construct() method of one scene class.             *)
(***************************************************************************)
EXTENDS Integers, Sequences, FiniteSets, TLC

VARIABLES
    program,        \* which program this behaviour runs
    pc,             \* position in the program
    sys_argv,       \* sys.argv (run_animation.py), script name first
    animation_name, \* animation_name / args.animation
    format_type,    \* format_type / args.format
    quality,        \* quality / args.quality
    output_dir,     \* output_dir / args.output
    config_file,    \* config_file / args.config: {} is None, {p} is the path p
    config_json,    \* file system: what the --config file holds, {} when missing
    config,         \* animations.py main: the loaded config dict
    animation,      \* animations.py main: the instance create_animation returned
    dirs,           \* file system: directories created by this run
    cmd,            \* argv handed to subprocess.run, <<>> while none was started
    handed_config,  \* configuration handed to the rendering step, {} when none is
    result,         \* local 'result': {} while unbound, {c} with returncode c
    retval,         \* return value of main(): {} is None, {c} is the int c
    exit_status,    \* exit status of the process: {} while running
    stdout,         \* lines printed, each a tuple of strings
    self_config,    \* scene: self.config
    current_value,  \* RegisterPackingExecution.construct: current_value
    new_value,      \* RegisterPackingExecution.construct: new_value
    loop_i,         \* construct of the scenes with a loop: loop variable i
    ebx_value_text, \* RegisterPackingExecution.construct: text shown in %ebx
    and_result,     \* ExactMatchExecution.construct: result
    bit_count,      \* ExactMatchExecution.construct: bit_count
    scene_texts,    \* scene: texts written besides the register value
    loaded_candidates, \* EliminationLoopExecution.construct: indices loaded into %ebx
    candidate_value,   \* EliminationLoopExecution.construct: candidate text in %ebx
    kept_blocks,       \* EliminationLoopExecution.construct: memory blocks set green
    faded_blocks,      \* EliminationLoopExecution.construct: memory blocks faded out
    result_index,      \* EliminationLoopExecution.construct: result_index
    ecx_counter        \* EliminationLoopExecution.construct: text of the %ecx counter

cliVars == <<sys_argv, animation_name, format_type, quality, output_dir,
             config_file, config_json, config, animation, dirs, cmd,
             handed_config, result, retval, exit_status, stdout>>
elimVars == <<loaded_candidates, candidate_value, kept_blocks, faded_blocks,
              result_index, ecx_counter>>
sceneVars == <<self_config, current_value, new_value, loop_i, ebx_value_text,
               and_result, bit_count, scene_texts, elimVars>>
vars == <<program, pc, cliVars, sceneVars>>

-----------------------------------------------------------------------------
(* Bounds of the model *)

\* option tokens after the animation name on run_animation.py's command line
MaxArgs == 2
\* how many of SampleWords the scene configurations draw from
MaxWords == 6
\* width of the two's complement window that holds a Python int
IntBits == 48
\* largest num_candidates, and longest candidates_to_keep, besides the defaults
MaxCandidates == 3

-----------------------------------------------------------------------------
(* Python ints as bit vectors: bit i has weight 2^i, the top bit is the sign *)

Bits == 0..(IntBits - 1)

\* an integer literal, given by its bytes as written (most significant first)
FromBytes(bytes) ==
    [i \in Bits |->
        IF i \div 8 < Len(bytes)
        THEN (bytes[Len(bytes) - (i \div 8)] \div (2 ^ (i % 8))) % 2
        ELSE 0]

PyAnd(a, b) == [i \in Bits |-> IF a[i] = 1 /\ b[i] = 1 THEN 1 ELSE 0]
PyOr(a, b) == [i \in Bits |-> IF a[i] = 1 \/ b[i] = 1 THEN 1 ELSE 0]
PyInvert(a) == [i \in Bits |-> 1 - a[i]]
PyRshift(a, n) == [i \in Bits |-> IF i + n < IntBits THEN a[i + n] ELSE a[IntBits - 1]]
PyLshift(a, n) == [i \in Bits |-> IF i >= n THEN a[i - n] ELSE 0]

\* byte k of a (byte 0 is the low byte), the sign bit repeated above the window
ByteAt(a, k) ==
    LET bit(i) == IF i < IntBits THEN a[i] ELSE a[IntBits - 1]
    IN bit(8 * k) + 2 * bit(8 * k + 1) + 4 * bit(8 * k + 2) + 8 * bit(8 * k + 3)
       + 16 * bit(8 * k + 4) + 32 * bit(8 * k + 5) + 64 * bit(8 * k + 6)
       + 128 * bit(8 * k + 7)

\* the carry into byte k of n * a, for a natural number n and a >= 0
RECURSIVE MulCarry(_, _, _)
MulCarry(n, a, k) ==
    IF k = 0 THEN 0
    ELSE (n * ByteAt(a, k - 1) + MulCarry(n, a, k - 1)) \div 256

\* n * a for a natural number n and a >= 0
PyMul(n, a) ==
    [i \in Bits |->
        ((n * ByteAt(a, i \div 8) + MulCarry(n, a, i \div 8)) \div (2 ^ (i % 8))) % 2]

HexDigits == <<"0", "1", "2", "3", "4", "5", "6", "7",
               "8", "9", "A", "B", "C", "D", "E", "F">>

Nibble(v, k) == v[4 * k] + 2 * v[4 * k + 1] + 4 * v[4 * k + 2] + 8 * v[4 * k + 3]

\* f"0x{v:08X}" for v >= 0: at least 8 hex digits, most significant first
Format08X(v) ==
    LET top == IntBits \div 4 - 1
        used == {k \in 0..top : Nibble(v, k) # 0}
        n == IF used = {} THEN 8
             ELSE LET hi == CHOOSE k \in used : \A j \in used : j <= k
                  IN IF hi + 1 > 8 THEN hi + 1 ELSE 8
    IN <<"0x">> \o [k \in 1..n |-> HexDigits[Nibble(v, n - k) + 1]]

\* bin(v) for v >= 0: "0b" and the binary digits without leading zeros
Bin(v) ==
    LET used == {i \in Bits : v[i] = 1}
        hi == IF used = {} THEN 0 ELSE CHOOSE i \in used : \A j \in used : j <= i
    IN <<"0", "b">> \o [k \in 1..(hi + 1) |-> IF v[hi + 1 - k] = 1 THEN "1" ELSE "0"]

\* str.count(ch)
Count(s, ch) == Cardinality({k \in DOMAIN s : s[k] = ch})

-----------------------------------------------------------------------------
(* animations.py: the scene classes and the create_animation factory *)

\* the classes animations.py defines; all of them derive from manim's Scene
SceneClasses ==
    {"BaseAnimation", "RegisterPackingExecution", "RegisterPackingDetailed",
     "ExactMatchExecution", "EliminationLoopExecution", "EntropyReduction",
     "StackOverwriteExecution", "BenchmarkChart"}

\* a dict is a set of <<key, value>> pairs; the empty dict is falsy
EmptyDict == {}

\* BaseAnimation.get_default_config and the overrides of the subclasses
\* (the keys the register and bit arithmetic reads are kept, colours dropped)
get_default_config(cls) ==
    {<<"font_size", "36">>, <<"wait_time", "1.0">>}
    \cup (CASE cls = "RegisterPackingExecution" ->
                 {<<"initial_mask", "0x80808080">>, <<"register_width", "4">>}
            [] cls = "ExactMatchExecution" ->
                 {<<"guess_value", "0x80A02040">>, <<"secret_value", "0x80102040">>}
            [] cls = "EliminationLoopExecution" ->
                 {<<"num_candidates", "10">>, <<"candidates_to_keep", "[0,2,4,6,8]">>}
            [] OTHER -> {<<"defaults_of", cls>>})

\* BaseAnimation.__init__: self.config = config or self.get_default_config()
BaseAnimation_init(cls, cfg) ==
    [raised |-> FALSE, cls |-> cls, config_passed |-> TRUE,
     config |-> IF cfg # EmptyDict THEN cfg ELSE get_default_config(cls)]

\* Scene.__init__ of a class that does not derive from BaseAnimation
Scene_init(cls) ==
    [raised |-> FALSE, cls |-> cls, config_passed |-> FALSE, config |-> EmptyDict]

scene_animations == [register_packing_detailed |-> "RegisterPackingDetailed"]

base_animations ==
    [register_packing |-> "RegisterPackingExecution",
     exact_match |-> "ExactMatchExecution",
     elimination_loop |-> "EliminationLoopExecution",
     entropy_reduction |-> "EntropyReduction",
     stack_overwrite |-> "StackOverwriteExecution",
     benchmark_chart |-> "BenchmarkChart"]

\* {**scene_animations, **base_animations}
all_animations ==
    [n \in DOMAIN scene_animations \cup DOMAIN base_animations |->
        IF n \in DOMAIN base_animations THEN base_animations[n]
        ELSE scene_animations[n]]

\* the instance create_animation returns, or the ValueError it raises
NoInstance == [raised |-> FALSE, cls |-> "", config_passed |-> FALSE, config |-> EmptyDict]
ValueError == [raised |-> TRUE, cls |-> "", config_passed |-> FALSE, config |-> EmptyDict]

\* a variant that hands config to every constructor
create_animation_always_config(name, cfg) ==
    IF name \notin DOMAIN all_animations THEN ValueError
    ELSE BaseAnimation_init(all_animations[name], cfg)

create_animation(name, cfg) ==
    IF name \notin DOMAIN all_animations THEN ValueError
    ELSE IF name \in DOMAIN scene_animations
         THEN Scene_init(all_animations[name])
         ELSE BaseAnimation_init(all_animations[name], cfg)

-----------------------------------------------------------------------------
(* run_animation.py *)

\* the dict of run_animation()
animation_to_class ==
    [register_packing |-> "RegisterPackingExecution",
     register_packing_detailed |-> "RegisterPackingDetailed",
     register_packing_accurate |-> "RegisterPackingAccurate",
     register_packing_accurate_fixed |-> "RegisterPackingAccurateFixed",
     exact_match |-> "ExactMatchExecution",
     elimination_loop |-> "EliminationLoopExecution",
     entropy_reduction |-> "EntropyReduction",
     stack_overwrite |-> "StackOverwriteExecution",
     benchmark_chart |-> "BenchmarkChart"]

\* the dict of main(), a second copy of the same table
main_animation_to_class ==
    [register_packing |-> "RegisterPackingExecution",
     register_packing_detailed |-> "RegisterPackingDetailed",
     register_packing_accurate |-> "RegisterPackingAccurate",
     register_packing_accurate_fixed |-> "RegisterPackingAccurateFixed",
     exact_match |-> "ExactMatchExecution",
     elimination_loop |-> "EliminationLoopExecution",
     entropy_reduction |-> "EntropyReduction",
     stack_overwrite |-> "StackOverwriteExecution",
     benchmark_chart |-> "BenchmarkChart"]

\* a variant that lets an unknown name through the validation
valid_animations_any == DOMAIN main_animation_to_class \cup {"no_such_animation"}

valid_animations == DOMAIN main_animation_to_class

\* the locals main() sets before its argument loop
DefaultArgs ==
    [format_type |-> "gif", quality |-> "high", output_dir |-> "media",
     config_file |-> {}]

\* the while loop of main(): i is the Python index into sys.argv
RECURSIVE ParseArgs(_, _, _)
ParseArgs(argv, i, acc) ==
    IF ~(i < Len(argv)) THEN acc
    ELSE LET arg == argv[i + 1]
             more == i + 1 < Len(argv)
         IN IF arg = "--format" /\ more
            THEN ParseArgs(argv, i + 2, [acc EXCEPT !.format_type = argv[i + 2]])
            ELSE IF arg = "--quality" /\ more
            THEN ParseArgs(argv, i + 2, [acc EXCEPT !.quality = argv[i + 2]])
            ELSE IF arg = "--output" /\ more
            THEN ParseArgs(argv, i + 2, [acc EXCEPT !.output_dir = argv[i + 2]])
            ELSE IF arg = "--config" /\ more
            THEN ParseArgs(argv, i + 2, [acc EXCEPT !.config_file = {argv[i + 2]}])
            ELSE ParseArgs(argv, i + 1, acc)

\* a variant that renders unrecognised quality values at medium quality
QualityFlag_medium_default(q) ==
    IF q = "low" THEN <<"-ql">>
    ELSE IF q = "high" THEN <<"-qh">>
    ELSE <<"-qm">>

\* the quality flag both entry points append to the manim command
QualityFlag(q) ==
    IF q = "low" THEN <<"-ql">>
    ELSE IF q = "medium" THEN <<"-qm">>
    ELSE <<"-qh">>

\* the manim command: both entry points build it the same way up to the scene
ManimCmd(fmt, media_dir, q, scene) ==
    <<"python", "-m", "manim", "--format", fmt, "--media_dir", media_dir,
      "--custom_folders", "-v", "WARNING">>
    \o QualityFlag(q) \o <<"animations.py", scene>>

\* the command run_animation() builds
run_animation_cmd(name, fmt, q, out) ==
    ManimCmd(fmt, out, q, animation_to_class[name])

\* the command main() of animations.py builds
animations_main_cmd(name, fmt, q, out) ==
    ManimCmd(fmt, out, q, name)

\* what subprocess.run can do: raise, or return a CompletedProcess whose
\* returncode is an exit code 0..255 or minus the number of the killing signal
ExitCodes == {0, 1, 2, 255}
ReturnCodes == ExitCodes \cup {-9}
Raises == "raise"
SubprocessOutcomes == {Raises} \cup {ToString(c) : c \in ReturnCodes}
ReturnCodeOf(outcome) == CHOOSE c \in ReturnCodes : ToString(c) = outcome

\* the exit status the operating system keeps of sys.exit(arg)
ExitStatus(arg) == IF arg = {} THEN 0 ELSE (CHOOSE c \in arg : TRUE) % 256

-----------------------------------------------------------------------------
(* Inputs *)

\* names given on the command line: the nine of the table and an unknown one
AnimationNames == DOMAIN animation_to_class \cup {"no_such_animation"}

\* tokens that may follow the animation name on run_animation.py's command line
ArgTokens ==
    {"--format", "--quality", "--output", "--config",
     "mp4", "low", "medium", "out", "cfg.json"}

RECURSIVE SeqsUpTo(_, _)
SeqsUpTo(S, n) ==
    IF n = 0 THEN {<<>>}
    ELSE LET shorter == SeqsUpTo(S, n - 1)
         IN shorter \cup {Append(q, t) : q \in shorter, t \in S}

\* what the file named by --config can hold
ConfigDicts ==
    {EmptyDict,
     {<<"wait_time", "2.0">>},
     {<<"wait_time", "3.0">>, <<"font_size", "24">>}}

\* the locals of EliminationLoopExecution.construct before it runs
ElimIdle ==
    /\ loaded_candidates = <<>>
    /\ candidate_value = <<>>
    /\ kept_blocks = {}
    /\ faded_blocks = {}
    /\ result_index = 0
    /\ ecx_counter = ""

\* no scene is being constructed
NoSceneConfig == [cls |-> "none"]

SceneIdle ==
    /\ self_config = NoSceneConfig
    /\ current_value = FromBytes(<<>>)
    /\ new_value = FromBytes(<<>>)
    /\ loop_i = 0
    /\ ebx_value_text = <<>>
    /\ and_result = FromBytes(<<>>)
    /\ bit_count = 0
    /\ scene_texts = <<>>
    /\ ElimIdle

CliIdle ==
    /\ config = EmptyDict
    /\ animation = NoInstance
    /\ dirs = {}
    /\ cmd = <<>>
    /\ handed_config = {}
    /\ result = {}
    /\ retval = {}
    /\ exit_status = {}
    /\ stdout = <<>>

\* python run_animation.py [name [tokens]]
InitRunAnimation ==
    /\ program = "run_animation.py"
    /\ pc = "main"
    /\ sys_argv \in {<<"run_animation.py">>}
                    \cup {<<"run_animation.py", n>> \o opts :
                            n \in AnimationNames, opts \in SeqsUpTo(ArgTokens, MaxArgs)}
    /\ animation_name = ""
    /\ format_type = ""
    /\ quality = ""
    /\ output_dir = ""
    /\ config_file = {}
    /\ config_json \in {{d} : d \in ConfigDicts \ {EmptyDict}}
    /\ CliIdle
    /\ SceneIdle

-----------------------------------------------------------------------------
(* run_animation.py: main, run_animation, sys.exit(main()) *)

Say(line) == stdout' = Append(stdout, line)
SayAll(lines) == stdout' = stdout \o lines

\* main() up to the call of run_animation
main ==
    /\ program = "run_animation.py"
    /\ pc = "main"
    /\ UNCHANGED <<program, sys_argv, config_json, config, animation, cmd,
                   handed_config, result, exit_status, sceneVars>>
    /\ IF Len(sys_argv) < 2
       THEN /\ Say(<<"usage">>)
            /\ retval' = {}
            /\ pc' = "sys_exit"
            /\ UNCHANGED <<animation_name, format_type, quality, output_dir,
                           config_file, dirs>>
       ELSE LET args == ParseArgs(sys_argv, 2, DefaultArgs)
                name == sys_argv[2]
            IN /\ animation_name' = name
               /\ format_type' = args.format_type
               /\ quality' = args.quality
               /\ output_dir' = args.output_dir
               /\ config_file' = args.config_file
               /\ IF name \notin valid_animations
                  THEN /\ SayAll(<< <<"ERROR: Unknown animation: ", name>>,
                                    <<"Available: ">> >>)
                       /\ retval' = {1}
                       /\ pc' = "sys_exit"
                       /\ UNCHANGED dirs
                  ELSE \* Path(output_dir).mkdir(parents=True, exist_ok=True)
                       \/ /\ dirs' = dirs \cup {args.output_dir}
                          /\ pc' = "run_animation"
                          /\ UNCHANGED <<retval, stdout>>
                       \/ /\ pc' = "uncaught"
                          /\ UNCHANGED <<dirs, retval, stdout>>

\* what run_animation() prints after subprocess.run returned 0, by what the
\* media directory holds
FileOutcomes == {"class_file", "name_file", "renamed", "rename_fails", "nothing"}

FileReport(found, name, fmt, class_name) ==
    CASE found = "class_file" -> << <<"SUCCESS: Animation saved to: ", class_name, fmt>> >>
      [] found = "name_file" -> << <<"SUCCESS: Animation saved to: ", name, fmt>> >>
      [] found = "renamed" -> << <<"SUCCESS: Animation saved to: ", name, fmt>> >>
      [] found = "rename_fails" -> << <<"ERROR: Animation rendering failed: ", "rename">> >>
      [] OTHER -> << <<"Warning: Expected output file not found">>,
                     <<"Files in output directory:">> >>

\* a variant that keeps only success or failure of the subprocess
run_animation_return_collapsed(res) == IF res = {0} THEN {0} ELSE {1}

\* return result.returncode if 'result' in locals() else 1
run_animation_return(res) == IF res # {} THEN res ELSE {1}

\* run_animation(animation_name, format_type, quality, output_dir, config_file)
run_animation ==
    /\ program = "run_animation.py"
    /\ pc = "run_animation"
    /\ IF animation_name \notin DOMAIN animation_to_class
       THEN \* animation_to_class[animation_name] raises KeyError outside the try
            /\ pc' = "uncaught"
            /\ UNCHANGED <<cmd, handed_config, result, retval, stdout>>
       ELSE LET class_name == animation_to_class[animation_name]
                command == run_animation_cmd(animation_name, format_type, quality,
                                             output_dir)
            IN /\ cmd' = command
               /\ handed_config' = {}
               /\ \E outcome \in SubprocessOutcomes :
                     IF outcome = Raises
                     THEN /\ result' = {}
                          /\ SayAll(<< <<"Running: ">> \o command,
                                       <<"ERROR: Animation rendering failed: ", "launch">> >>)
                     ELSE LET c == ReturnCodeOf(outcome)
                          IN /\ result' = {c}
                             /\ IF c = 0
                                THEN \E found \in FileOutcomes :
                                       SayAll(<< <<"Running: ">> \o command,
                                                 <<"Animation rendering completed successfully!">> >>
                                              \o FileReport(found, animation_name,
                                                            format_type, class_name))
                                ELSE SayAll(<< <<"Running: ">> \o command,
                                               <<"ERROR: Animation rendering failed with exit code: ",
                                                 outcome>> >>)
               /\ retval' = run_animation_return(result')
               /\ pc' = "sys_exit"
    /\ UNCHANGED <<program, sys_argv, animation_name, format_type, quality, output_dir,
                   config_file, config_json, config, animation, dirs, exit_status,
                   sceneVars>>

\* sys.exit(main())
sys_exit ==
    /\ program = "run_animation.py"
    /\ pc = "sys_exit"
    /\ exit_status' = {ExitStatus(retval)}
    /\ pc' = "exited"
    /\ UNCHANGED <<program, sys_argv, animation_name, format_type, quality, output_dir,
                   config_file, config_json, config, animation, dirs, cmd, handed_config,
                   result, retval, stdout, sceneVars>>

\* an exception nothing catches: the interpreter prints the traceback, status 1
uncaught_exception ==
    /\ pc = "uncaught"
    /\ exit_status' = {1}
    /\ pc' = "exited"
    /\ Say(<<"Traceback (most recent call last):">>)
    /\ UNCHANGED <<program, sys_argv, animation_name, format_type, quality, output_dir,
                   config_file, config_json, config, animation, dirs, cmd, handed_config,
                   result, retval, sceneVars>>

-----------------------------------------------------------------------------
(* animations.py run as a script: main() and the module's last two lines *)

\* the choices argparse accepts, and values it rejects with status 2
AnimationChoices ==
    {"register_packing", "exact_match", "elimination_loop",
     "entropy_reduction", "stack_overwrite", "benchmark_chart"}
FormatChoices == {"gif", "mp4"}
QualityChoices == {"low", "medium", "high"}

\* python animations.py <animation> [--config p] [--output d] [--format f] [--quality q]
InitAnimationsMain ==
    /\ program = "animations.py"
    /\ pc = "parse_args"
    /\ sys_argv = <<"animations.py">>
    /\ animation_name \in AnimationNames
    /\ format_type \in FormatChoices \cup {"webm"}
    /\ quality \in QualityChoices \cup {"ultra"}
    /\ output_dir \in {"media", "out"}
    /\ config_file \in {{}, {"cfg.json"}}
    /\ config_json \in {{}} \cup {{d} : d \in ConfigDicts}
    /\ config_file = {} => config_json = {}
    /\ CliIdle
    /\ SceneIdle

\* main() from parser.parse_args() to the output directory
animations_main ==
    /\ program = "animations.py"
    /\ pc = "parse_args"
    /\ UNCHANGED <<program, sys_argv, animation_name, format_type, quality, output_dir,
                   config_file, config_json, cmd, handed_config, result, retval,
                   sceneVars>>
    /\ IF \/ animation_name \notin AnimationChoices
          \/ format_type \notin FormatChoices
          \/ quality \notin QualityChoices
       THEN \* parser.error(): usage on stderr, SystemExit(2)
            /\ exit_status' = {2}
            /\ pc' = "exited"
            /\ UNCHANGED <<config, animation, dirs, stdout>>
       ELSE IF config_file # {} /\ config_json = {}
       THEN \* open(args.config) raises FileNotFoundError
            /\ pc' = "uncaught"
            /\ UNCHANGED <<config, animation, dirs, stdout, exit_status>>
       ELSE LET loaded == IF config_file # {}
                          THEN CHOOSE d \in config_json : TRUE
                          ELSE EmptyDict
            IN /\ config' = loaded
               /\ animation' = create_animation(animation_name, loaded)
               /\ UNCHANGED exit_status
               /\ \* ValueError of create_animation, or output_dir.mkdir(exist_ok=True)
                  \/ /\ ~animation'.raised
                     /\ dirs' = dirs \cup {output_dir}
                     /\ SayAll(<< <<"Rendering ", animation_name, " animation...">>,
                                  <<"Output: ", output_dir, animation_name, format_type>>,
                                  <<"Quality: ", quality>> >>)
                     /\ pc' = "render"
                  \/ /\ pc' = "uncaught"
                     /\ UNCHANGED <<dirs, stdout>>

\* main() from the manim command to its return
animations_main_render ==
    /\ program = "animations.py"
    /\ pc = "render"
    /\ LET command == animations_main_cmd(animation_name, format_type, quality, output_dir)
       IN /\ cmd' = command
          /\ handed_config' = {}
          /\ \E outcome \in SubprocessOutcomes :
                IF outcome = Raises
                THEN /\ result' = {}
                     /\ retval' = {1}
                     /\ SayAll(<< <<"Running: ">> \o command,
                                  <<"Animation rendering failed: ", "launch">> >>)
                ELSE LET c == ReturnCodeOf(outcome)
                     IN /\ result' = {c}
                        /\ IF c = 0
                           THEN /\ retval' = {}
                                /\ \E exists \in BOOLEAN :
                                     SayAll(<< <<"Running: ">> \o command,
                                               <<"Animation rendering completed successfully!">>,
                                               IF exists
                                               THEN <<"Output file created: ", output_dir,
                                                      animation_name, format_type>>
                                               ELSE <<"Warning: Expected output file not found: ",
                                                      output_dir, animation_name, format_type>> >>)
                           ELSE /\ retval' = {1}
                                /\ SayAll(<< <<"Running: ">> \o command,
                                             <<"Animation rendering failed with exit code: ",
                                               outcome>> >>)
    /\ pc' = "script_end"
    /\ UNCHANGED <<program, sys_argv, animation_name, format_type, quality, output_dir,
                   config_file, config_json, config, animation, dirs, exit_status,
                   sceneVars>>

\* if __name__ == "__main__": main()   -- the value main() returned is dropped
animations_script_end ==
    /\ program = "animations.py"
    /\ pc = "script_end"
    /\ exit_status' = {ExitStatus({})}
    /\ pc' = "exited"
    /\ UNCHANGED <<program, sys_argv, animation_name, format_type, quality, output_dir,
                   config_file, config_json, config, animation, dirs, cmd, handed_config,
                   result, retval, stdout, sceneVars>>

-----------------------------------------------------------------------------
(* create_animation called as a function of the module *)

InitCreateAnimation ==
    /\ program = "create_animation"
    /\ pc = "call"
    /\ sys_argv = <<>>
    /\ animation_name \in AnimationNames
    /\ format_type = ""
    /\ quality = ""
    /\ output_dir = ""
    /\ config_file = {}
    /\ config_json = {}
    /\ config \in ConfigDicts
    /\ animation = NoInstance
    /\ dirs = {} /\ cmd = <<>> /\ handed_config = {} /\ result = {} /\ retval = {}
    /\ exit_status = {} /\ stdout = <<>>
    /\ SceneIdle

create_animation_call ==
    /\ program = "create_animation"
    /\ pc = "call"
    /\ animation' = create_animation(animation_name, config)
    /\ pc' = IF animation'.raised THEN "raised" ELSE "returned"
    /\ UNCHANGED <<program, sys_argv, animation_name, format_type, quality, output_dir,
                   config_file, config_json, config, dirs, cmd, handed_config, result,
                   retval, exit_status, stdout, sceneVars>>

-----------------------------------------------------------------------------
(* Scene configurations *)

\* 32-bit values a configuration may hold besides the defaults, by their bytes
SampleWords ==
    << <<255, 255, 255, 255>>, <<0, 0, 0, 0>>, <<18, 52, 86, 120>>,
       <<222, 173, 190, 239>>, <<0, 0, 0, 1>>, <<7, 0, 0, 231>>,
       <<1, 2, 4, 8>>, <<165, 90, 60, 195>> >>

\* RegisterPackingExecution.get_default_config
DefaultInitialMask == FromBytes(<<\b10000000, \b10000000, \b10000000, \b10000000>>)
DefaultSymbolBits == <<\b10000000, \b01000000, \b00100000, \b00010000>>

\* ExactMatchExecution.get_default_config
DefaultGuessValue == FromBytes(<<\h80, \hA0, \h20, \h40>>)
DefaultSecretValue == FromBytes(<<\h80, \h10, \h20, \h40>>)

Words ==
    {DefaultInitialMask, DefaultGuessValue, DefaultSecretValue}
    \cup {FromBytes(SampleWords[k]) :
            k \in {j \in DOMAIN SampleWords : j <= MaxWords}}

InitScene(cls, configs) ==
    /\ program = cls
    /\ pc = "construct"
    /\ sys_argv = <<>>
    /\ animation_name = ""
    /\ format_type = ""
    /\ quality = ""
    /\ output_dir = ""
    /\ config_file = {}
    /\ config_json = {}
    /\ CliIdle
    /\ self_config \in configs
    /\ current_value = FromBytes(<<>>)
    /\ new_value = FromBytes(<<>>)
    /\ loop_i = 0
    /\ ebx_value_text = <<>>
    /\ and_result = FromBytes(<<>>)
    /\ bit_count = 0
    /\ scene_texts = <<>>
    /\ ElimIdle

Write(text) == scene_texts' = Append(scene_texts, text)

-----------------------------------------------------------------------------
(* RegisterPackingExecution.construct *)

InitRegisterPacking ==
    InitScene("RegisterPackingExecution",
              {[cls |-> "RegisterPackingExecution", initial_mask |-> m,
                symbol_bits |-> DefaultSymbolBits] : m \in Words})

\* for i in range(4)
RegisterPackingIterations == 4

\* a variant that leaves out the & 0xFF after the left shift
rorb_unmasked(v) ==
    LET xFF == FromBytes(<<\hFF>>)
        rotated_byte == PyOr(PyRshift(PyAnd(v, xFF), 3), PyLshift(PyAnd(v, xFF), 5))
    IN PyOr(PyAnd(v, PyInvert(xFF)), rotated_byte)

\* a variant that rotates the low byte by 5 instead of 3
rorb_by_5(v) ==
    LET xFF == FromBytes(<<\hFF>>)
        rotated_byte == PyOr(PyRshift(PyAnd(v, xFF), 5),
                             PyAnd(PyLshift(PyAnd(v, xFF), 3), xFF))
    IN PyOr(PyAnd(v, PyInvert(xFF)), rotated_byte)

\* rorb %cl, %bl:
\*   rotated_byte = ((v & 0xFF) >> 3) | (((v & 0xFF) << 5) & 0xFF)
\*   new_value = (v & ~0xFF) | rotated_byte
rorb(v) ==
    LET xFF == FromBytes(<<\hFF>>)
        rotated_byte == PyOr(PyRshift(PyAnd(v, xFF), 3),
                             PyAnd(PyLshift(PyAnd(v, xFF), 5), xFF))
    IN PyOr(PyAnd(v, PyInvert(xFF)), rotated_byte)

\* a variant that leaves out the & 0xFFFFFFFF after the left shift
rorl_unmasked(v) == PyOr(PyLshift(v, 8), PyRshift(v, 24))

\* rorl $8, %ebx:  new_value = ((new_value << 8) & 0xFFFFFFFF) | (new_value >> 24)
rorl(v) ==
    PyOr(PyAnd(PyLshift(v, 8), FromBytes(<<\hFF, \hFF, \hFF, \hFF>>)),
         PyRshift(v, 24))

\* construct() up to the loop: title, register and code are drawn
RegisterPacking_construct ==
    /\ program = "RegisterPackingExecution"
    /\ pc = "construct"
    /\ Write(<<"Executing Bit Placement in Register">>)
    /\ ebx_value_text' = Format08X(self_config.initial_mask)
    /\ current_value' = self_config.initial_mask
    /\ pc' = "rorb"
    /\ UNCHANGED <<program, cliVars, elimVars, self_config, new_value, loop_i, and_result,
                   bit_count>>

\* first half of the loop body: the low byte is rotated and shown
RegisterPacking_rorb ==
    /\ program = "RegisterPackingExecution"
    /\ pc = "rorb"
    /\ new_value' = rorb(current_value)
    /\ ebx_value_text' = Format08X(new_value')
    /\ pc' = "rorl"
    /\ UNCHANGED <<program, cliVars, elimVars, self_config, current_value, loop_i, and_result,
                   bit_count, scene_texts>>

\* second half of the loop body: the register is rotated and shown
RegisterPacking_rorl ==
    /\ program = "RegisterPackingExecution"
    /\ pc = "rorl"
    /\ new_value' = rorl(new_value)
    /\ current_value' = new_value'
    /\ ebx_value_text' = Format08X(current_value')
    /\ IF loop_i + 1 < RegisterPackingIterations
       THEN loop_i' = loop_i + 1 /\ pc' = "rorb"
       ELSE loop_i' = loop_i /\ pc' = "final_msg"
    /\ UNCHANGED <<program, cliVars, elimVars, self_config, and_result, bit_count, scene_texts>>

\* after the loop: the final message
RegisterPacking_final ==
    /\ program = "RegisterPackingExecution"
    /\ pc = "final_msg"
    /\ Write(<<"Full combination packed!">>)
    /\ pc' = "done"
    /\ UNCHANGED <<program, cliVars, elimVars, self_config, current_value, new_value, loop_i,
                   ebx_value_text, and_result, bit_count>>

-----------------------------------------------------------------------------
(* ExactMatchExecution.construct *)

InitExactMatch ==
    InitScene("ExactMatchExecution",
              {[cls |-> "ExactMatchExecution", guess_value |-> g, secret_value |-> s] :
                 g \in Words, s \in Words})

\* a variant that combines the two values with | instead of &
exact_match_result_or(guess_val, secret_val) == PyOr(guess_val, secret_val)

\* result = guess_val & secret_val
exact_match_result(guess_val, secret_val) == PyAnd(guess_val, secret_val)

\* bit_count = bin(result).count('1')
exact_match_bit_count(res) == Count(Bin(res), "1")

\* construct() up to the calculation text
ExactMatch_construct ==
    /\ program = "ExactMatchExecution"
    /\ pc = "construct"
    /\ and_result' = exact_match_result(self_config.guess_value, self_config.secret_value)
    /\ scene_texts' = scene_texts \o
          << <<"Exact Match Calculation">>,
             <<"AND operation: guess & secret">>,
             Format08X(self_config.guess_value) \o <<" & ">>
                \o Format08X(self_config.secret_value) \o <<" = ">>
                \o Format08X(and_result') >>
    /\ pc' = "count"
    /\ UNCHANGED <<program, cliVars, elimVars, self_config, current_value, new_value, loop_i,
                   ebx_value_text, bit_count>>

\* the set bits are counted and the count is shown
ExactMatch_count ==
    /\ program = "ExactMatchExecution"
    /\ pc = "count"
    /\ bit_count' = exact_match_bit_count(and_result)
    /\ Write(<<"Number of exact matches: ", ToString(bit_count')>>)
    /\ pc' = "done"
    /\ UNCHANGED <<program, cliVars, elimVars, self_config, current_value, new_value, loop_i,
                   ebx_value_text, and_result>>

-----------------------------------------------------------------------------
(* EliminationLoopExecution.construct *)

\* EliminationLoopExecution.get_default_config
DefaultNumCandidates == 10
DefaultCandidatesToKeep == <<0, 2, 4, 6, 8>>

EliminationConfigs ==
    {[cls |-> "EliminationLoopExecution", num_candidates |-> DefaultNumCandidates,
      candidates_to_keep |-> DefaultCandidatesToKeep]}
    \cup {[cls |-> "EliminationLoopExecution", num_candidates |-> n,
           candidates_to_keep |-> keep] :
             n \in 0..MaxCandidates,
             keep \in SeqsUpTo(0..MaxCandidates, MaxCandidates)}

InitEliminationLoop == InitScene("EliminationLoopExecution", EliminationConfigs)

\* a variant that takes candidates_to_keep for a mask indexed by the candidate
candidate_passes_by_position(i, candidates_to_keep) ==
    i < Len(candidates_to_keep)

\* i in self.config['candidates_to_keep']
candidate_passes(i, candidates_to_keep) ==
    \E k \in DOMAIN candidates_to_keep : candidates_to_keep[k] = i

\* f"0x{(i * 0x11111111) & 0xFFFFFFFF:08X}"
candidate_text(i) ==
    Format08X(PyAnd(PyMul(i, FromBytes(<<\h11, \h11, \h11, \h11>>)),
                    FromBytes(<<\hFF, \hFF, \hFF, \hFF>>)))

\* construct() up to the loop: memory array, register, counter and code
EliminationLoop_construct ==
    /\ program = "EliminationLoopExecution"
    /\ pc = "construct"
    /\ Write(<<"Elimination Loop Execution">>)
    /\ ecx_counter' = "0"
    /\ result_index' = 0
    /\ loop_i' = 0
    /\ pc' = IF 0 < self_config.num_candidates THEN "load" ELSE "final_msg"
    /\ UNCHANGED <<program, cliVars, self_config, current_value, new_value,
                   ebx_value_text, and_result, bit_count, loaded_candidates,
                   candidate_value, kept_blocks, faded_blocks>>

\* loop body up to the histogram call: candidate i is loaded into %ebx
EliminationLoop_load ==
    /\ program = "EliminationLoopExecution"
    /\ pc = "load"
    /\ loaded_candidates' = Append(loaded_candidates, loop_i)
    /\ candidate_value' = candidate_text(loop_i)
    /\ pc' = "compare"
    /\ UNCHANGED <<program, cliVars, self_config, current_value, new_value, loop_i,
                   ebx_value_text, and_result, bit_count, scene_texts, kept_blocks,
                   faded_blocks, result_index, ecx_counter>>

\* rest of the loop body: keep or eliminate, counter update, clean up
EliminationLoop_compare ==
    /\ program = "EliminationLoopExecution"
    /\ pc = "compare"
    /\ IF candidate_passes(loop_i, self_config.candidates_to_keep)
       THEN /\ kept_blocks' = kept_blocks \cup {loop_i}
            /\ result_index' = result_index + 1
            /\ UNCHANGED faded_blocks
       ELSE /\ faded_blocks' = faded_blocks \cup {loop_i}
            /\ UNCHANGED <<kept_blocks, result_index>>
    /\ ecx_counter' = ToString(loop_i + 1)
    /\ candidate_value' = <<>>
    /\ IF loop_i + 1 < self_config.num_candidates
       THEN loop_i' = loop_i + 1 /\ pc' = "load"
       ELSE loop_i' = loop_i /\ pc' = "final_msg"
    /\ UNCHANGED <<program, cliVars, self_config, current_value, new_value,
                   ebx_value_text, and_result, bit_count, scene_texts,
                   loaded_candidates>>

\* after the loop: the final message
EliminationLoop_final ==
    /\ program = "EliminationLoopExecution"
    /\ pc = "final_msg"
    /\ Write(<<"Elimination complete! ", ToString(result_index),
               " candidates remaining">>)
    /\ pc' = "done"
    /\ UNCHANGED <<program, cliVars, elimVars, self_config, current_value, new_value,
                   loop_i, ebx_value_text, and_result, bit_count>>

-----------------------------------------------------------------------------
Init ==
    \/ InitRunAnimation
    \/ InitAnimationsMain
    \/ InitCreateAnimation
    \/ InitRegisterPacking
    \/ InitExactMatch
    \/ InitEliminationLoop

Next ==
    \/ main
    \/ run_animation
    \/ sys_exit
    \/ uncaught_exception
    \/ animations_main
    \/ animations_main_render
    \/ animations_script_end
    \/ create_animation_call
    \/ RegisterPacking_construct
    \/ RegisterPacking_rorb
    \/ RegisterPacking_rorl
    \/ RegisterPacking_final
    \/ ExactMatch_construct
    \/ ExactMatch_count
    \/ EliminationLoop_construct
    \/ EliminationLoop_load
    \/ EliminationLoop_compare
    \/ EliminationLoop_final

Spec == Init /\ [][Next]_vars

-----------------------------------------------------------------------------
(* Properties *)

Range(q) == {q[k] : k \in DOMAIN q}
Last(q) == q[Len(q)]
HasPair(q, a, b) == \E k \in 1..(Len(q) - 1) : q[k] = a /\ q[k + 1] = b
Printed(line) == \E k \in DOMAIN stdout : stdout[k] = line

\* C1: every animation name the run_animation.py dispatcher accepts maps to a
\* class that animations.py defines as a scene class.
C1_AcceptedNameHasSceneClass ==
    (program = "run_animation.py" /\ pc = "run_animation")
        => /\ animation_name \in DOMAIN animation_to_class
           /\ animation_to_class[animation_name] \in SceneClasses

\* C2: for both command-line entry points the scene identifier placed last in
\* the rendering command is the class name the requested animation maps to.
C2_SceneIsMappedClass ==
    cmd # <<>> =>
        Last(cmd) = IF program = "run_animation.py"
                    THEN animation_to_class[animation_name]
                    ELSE all_animations[animation_name]

\* C3: in run_animation.py, for a valid name, when the rendering subprocess
\* completes with exit code c then run_animation returns c and the process exits
\* with status c; when launching the subprocess raises, run_animation returns 1.
C3_ExitCodePropagated ==
    (program = "run_animation.py" /\ cmd # <<>> /\ pc \in {"sys_exit", "exited"})
        => /\ result # {} => retval = result
           /\ result = {} => retval = {1}
           /\ pc = "exited" =>
                \A c \in ExitCodes : result = {c} => exit_status = {c}

C3_Witness ==
    /\ program = "run_animation.py"
    /\ pc = "exited"
    /\ animation_name = "exact_match"
    /\ result = {2}
    /\ retval = {2}
    /\ exit_status = {2}

\* C4: when animations.py runs as a script and the rendering subprocess exits
\* with a non-zero code or cannot be launched, the animations.py process ends
\* with a non-zero exit status.
C4_FailurePropagated ==
    (program = "animations.py" /\ pc = "exited" /\ cmd # <<>> /\ result # {0})
        => exit_status # {0}

\* C5: in run_animation.py an animation name that is not a key of
\* animation_to_class yields return value 1 with an error message, and neither
\* a rendering subprocess is started nor the output directory created.
C5_UnknownNameRejected ==
    (/\ program = "run_animation.py"
     /\ Len(sys_argv) >= 2
     /\ sys_argv[2] \notin DOMAIN animation_to_class)
        => /\ cmd = <<>>
           /\ result = {}
           /\ dirs = {}
           /\ pc \in {"main", "sys_exit", "exited"}
           /\ pc \in {"sys_exit", "exited"} =>
                /\ retval = {1}
                /\ Printed(<<"ERROR: Unknown animation: ", sys_argv[2]>>)
           /\ pc = "exited" => exit_status = {1}

C5_Witness ==
    /\ program = "run_animation.py"
    /\ pc = "exited"
    /\ sys_argv = <<"run_animation.py", "no_such_animation", "--output", "out">>
    /\ output_dir = "out"
    /\ retval = {1}
    /\ dirs = {}

\* the classes declared with BaseAnimation as their base
BaseAnimationClasses ==
    {"RegisterPackingExecution", "ExactMatchExecution", "EliminationLoopExecution",
     "EntropyReduction", "StackOverwriteExecution", "BenchmarkChart"}

\* C6: create_animation raises ValueError without constructing a scene when the
\* name is not one of the seven registered names; for a registered name it
\* returns an instance of exactly the mapped class, passing config to the
\* constructor only for BaseAnimation-based classes and never for
\* 'register_packing_detailed'.
C6_FactoryContract ==
    LET registered == {"register_packing_detailed", "register_packing", "exact_match",
                       "elimination_loop", "entropy_reduction", "stack_overwrite",
                       "benchmark_chart"}
    IN (program = "create_animation" /\ pc # "call")
        => /\ animation_name \notin registered =>
                pc = "raised" /\ animation.raised /\ animation.cls = ""
           /\ animation_name \in registered =>
                /\ pc = "returned"
                /\ ~animation.raised
                /\ animation.cls = all_animations[animation_name]
                /\ animation.cls \in SceneClasses
                /\ animation.config_passed <=> animation.cls \in BaseAnimationClasses
                /\ animation_name = "register_packing_detailed" => ~animation.config_passed
                /\ (animation.config_passed /\ config # EmptyDict) =>
                        animation.config = config

C6_Witness ==
    /\ program = "create_animation"
    /\ pc = "returned"
    /\ animation_name = "register_packing_detailed"
    /\ config # EmptyDict
    /\ animation.cls = "RegisterPackingDetailed"
    /\ ~animation.config_passed

\* C7: the command run_animation.py builds contains '--format <format>' and
\* '--media_dir <output>', gif and media when the flags are absent, and exactly
\* one quality flag: -ql for 'low', -qm for 'medium', -qh for any other value.
C7_CommandOptions ==
    (program = "run_animation.py" /\ cmd # <<>>)
        => /\ HasPair(cmd, "--format", format_type)
           /\ HasPair(cmd, "--media_dir", output_dir)
           /\ "--format" \notin Range(sys_argv) => format_type = "gif"
           /\ "--output" \notin Range(sys_argv) => output_dir = "media"
           /\ "--quality" \notin Range(sys_argv) => quality = "high"
           /\ Cardinality({k \in DOMAIN cmd : cmd[k] \in {"-ql", "-qm", "-qh"}}) = 1
           /\ quality = "low" => "-ql" \in Range(cmd)
           /\ quality = "medium" => "-qm" \in Range(cmd)
           /\ quality \notin {"low", "medium"} => "-qh" \in Range(cmd)

C7_Witness ==
    /\ program = "run_animation.py"
    /\ cmd # <<>>
    /\ sys_argv = <<"run_animation.py", "benchmark_chart", "--quality", "mp4">>
    /\ quality = "mp4"
    /\ format_type = "gif"
    /\ "-qh" \in Range(cmd)

\* C8: the parameters loaded from the JSON file given with --config are the
\* configuration of the scene the rendering step renders, for either entry
\* point: the rendering step is handed the contents of the file (or its path).
C8_ConfigReachesRenderer ==
    (cmd # <<>> /\ config_file # {} /\ config_json # {})
        => \/ handed_config = config_json
           \/ \E k \in DOMAIN cmd : cmd[k] \in config_file

\* C9: ExactMatchExecution displays the number of 1 bits of
\* guess_value AND secret_value for every pair of 32-bit values; for the default
\* configuration (guess 0x80A02040, secret 0x80102040) it displays 3.
C9_ExactMatchCount ==
    (program = "ExactMatchExecution" /\ pc = "done")
        => LET g == self_config.guess_value
               s == self_config.secret_value
               n == Cardinality({i \in 0..31 : g[i] = 1 /\ s[i] = 1})
           IN /\ Last(scene_texts) = <<"Number of exact matches: ", ToString(n)>>
              /\ (g = FromBytes(<<128, 160, 32, 64>>) /\ s = FromBytes(<<128, 16, 32, 64>>))
                    => Last(scene_texts) = <<"Number of exact matches: ", "3">>

C9_Witness ==
    /\ program = "ExactMatchExecution"
    /\ pc = "done"
    /\ self_config.guess_value = FromBytes(<<128, 160, 32, 64>>)
    /\ self_config.secret_value = FromBytes(<<128, 16, 32, 64>>)
    /\ bit_count = 3
    /\ Last(scene_texts) = <<"Number of exact matches: ", "3">>

\* C10: in each of the four iterations of RegisterPackingExecution the rorb
\* step replaces the low byte of the register by that byte rotated right by 3
\* within 8 bits and leaves the upper 24 bits unchanged.
C10_RorbRotatesLowByte ==
    (program = "RegisterPackingExecution" /\ pc = "rorl")
        => /\ \A i \in 0..7 : new_value[i] = current_value[(i + 3) % 8]
           /\ \A i \in 8..(IntBits - 1) : new_value[i] = current_value[i]
           /\ loop_i \in 0..3

C10_Witness ==
    /\ program = "RegisterPackingExecution"
    /\ pc = "rorl"
    /\ loop_i = 3
    /\ self_config.initial_mask = FromBytes(<<18, 52, 86, 120>>)
    /\ new_value # current_value
    /\ \E i \in 8..31 : current_value[i] = 1

\* the value is a 32-bit one: no bit of weight 2^32 or more is set
Fits32(v) == \A i \in 32..(IntBits - 1) : v[i] = 0

\* C11: in RegisterPackingExecution the 'rorl $8' step rotates the whole 32-bit
\* register left by 8 bits (the top byte re-enters as the low byte, no bit is
\* lost), and the register value stays within 0..2^32-1 in every state of the
\* loop for any 32-bit initial_mask.
C11_RorlRotatesLeftBy8 ==
    /\ [](program = "RegisterPackingExecution"
            => Fits32(current_value) /\ Fits32(new_value))
    /\ [][RegisterPacking_rorl =>
            /\ \A i \in 0..31 : new_value'[i] = new_value[(i + 24) % 32]
            /\ current_value' = new_value']_vars

C11_Witness ==
    /\ program = "RegisterPackingExecution"
    /\ pc = "rorb"
    /\ loop_i = 1
    /\ self_config.initial_mask = FromBytes(<<18, 52, 86, 120>>)
    /\ current_value = FromBytes(<<52, 86, 15, 18>>)

\* C12: after the four loop iterations of RegisterPackingExecution the register
\* equals the initial mask with each of its four bytes rotated right by 3 bits,
\* every byte back in its original position; for the default mask 0x80808080
\* the final value is 0x10101010.
C12_FinalRegisterValue ==
    (program = "RegisterPackingExecution" /\ pc \in {"final_msg", "done"})
        => /\ \A k \in 0..3 : \A i \in 0..7 :
                current_value[8 * k + i] = self_config.initial_mask[8 * k + ((i + 3) % 8)]
           /\ Fits32(current_value)
           /\ self_config.initial_mask = FromBytes(<<128, 128, 128, 128>>)
                => /\ current_value = FromBytes(<<16, 16, 16, 16>>)
                   /\ ebx_value_text = <<"0x", "1", "0", "1", "0", "1", "0", "1", "0">>

C12_Witness ==
    /\ program = "RegisterPackingExecution"
    /\ pc = "done"
    /\ loop_i = 3
    /\ self_config.initial_mask = FromBytes(<<128, 128, 128, 128>>)
    /\ current_value = FromBytes(<<16, 16, 16, 16>>)

\* C13: when RegisterPackingExecution shows 'Full combination packed!' the
\* register holds the configured 4-symbol combination: its four bytes are the
\* four configured symbol_bits encodings, one distinct encoding per byte.
C13_CombinationPacked ==
    (/\ program = "RegisterPackingExecution"
     /\ scene_texts # <<>>
     /\ Last(scene_texts) = <<"Full combination packed!">>)
        => /\ {ByteAt(current_value, k) : k \in 0..3} = Range(self_config.symbol_bits)
           /\ \A j, k \in 0..3 :
                j # k => ByteAt(current_value, j) # ByteAt(current_value, k)

\* C14: in EliminationLoopExecution every candidate index below
\* num_candidates is processed exactly once, in increasing order, and ends
\* either kept (green) or eliminated (faded out), never both; the count in
\* 'Elimination complete! N candidates remaining' is the number of indices
\* below num_candidates that are in candidates_to_keep (5 by default).
C14_EliminationPartition ==
    program = "EliminationLoopExecution"
        => LET n == self_config.num_candidates
               keep == Range(self_config.candidates_to_keep)
               passing == {i \in 0..(n - 1) : i \in keep}
           IN /\ \A k \in DOMAIN loaded_candidates : loaded_candidates[k] = k - 1
              /\ Len(loaded_candidates) <= n
              /\ kept_blocks \cap faded_blocks = {}
              /\ kept_blocks \cup faded_blocks \subseteq Range(loaded_candidates)
              /\ pc \in {"final_msg", "done"} =>
                    /\ Len(loaded_candidates) = n
                    /\ kept_blocks \cup faded_blocks = 0..(n - 1)
                    /\ kept_blocks = passing
                    /\ result_index = Cardinality(passing)
              /\ pc = "done" =>
                    /\ Last(scene_texts) = <<"Elimination complete! ",
                                             ToString(Cardinality(passing)),
                                             " candidates remaining">>
                    /\ (n = 10 /\ self_config.candidates_to_keep = <<0, 2, 4, 6, 8>>)
                          => Last(scene_texts) = <<"Elimination complete! ", "5",
                                                   " candidates remaining">>

C14_Witness ==
    /\ program = "EliminationLoopExecution"
    /\ pc = "done"
    /\ self_config.num_candidates = 10
    /\ self_config.candidates_to_keep = <<0, 2, 4, 6, 8>>
    /\ loaded_candidates = <<0, 1, 2, 3, 4, 5, 6, 7, 8, 9>>
    /\ kept_blocks = {0, 2, 4, 6, 8}
    /\ faded_blocks = {1, 3, 5, 7, 9}
    /\ result_index = 5

====
